---- MODULE Spec2Model ----
(***************************************************************************)
(* Happy AI Website Builder: the generate -> publish -> deploy pipeline,   *)
(* its degrade-to-mock policy, and the in-memory session store.            *)
(*                                                                         *)
(* The repository holds three variants of one express server.  The model   *)
(* follows src/unnamed/part_001 (chat, deploy, createGitHubRepository,     *)
(* deployToVercel, generateAIResponse), takes the full fallback template   *)
(* of src/server.js beside the stub of part_001, and the older             *)
(* /api/generate-website pipeline of src/unnamed/part_000.                 *)
(*                                                                         *)
(* A request is a process: its handler runs to the next await, the remote  *)
(* call is in flight while pc[r] names it, and the action that models the  *)
(* call's return runs the handler to its next await or to its response.    *)
(***************************************************************************)
EXTENDS Integers, Sequences, FiniteSets, TLC

VARIABLES
    cfg,      \* which environment credentials are configured (non-empty)
    now,      \* the clock Date.now() reads
    pc,       \* per request: where its handler is suspended
    inp,      \* per request: endpoint and request body
    loc,      \* per request: the handler's local variables
    calls,    \* per request: the outbound calls issued so far, in order
    answers,  \* per request: what each returned call answered, in order
    resp,     \* per request: the response sent (NoResp until then)
    userSessions, \* the Map of the session store: key -> session (Undef: no entry)
    seen      \* per key: the history responses answered since its last save

vars == <<cfg, now, pc, inp, loc, calls, answers, resp, userSessions, seen>>

(* ------------------------------ bounds -------------------------------- *)

\* The clock stops advancing at MaxClock.
MaxClock == 2

Reqs == {"r1"}

(* --------------------------- JavaScript values ------------------------ *)
(* A text is a sequence of string atoms; user input is one atom per        *)
(* character, a template literal contributes its literal pieces as atoms.  *)

Undef == [k |-> "undefined"]
Null == [k |-> "null"]
Str(t) == [k |-> "string", s |-> t]
Num(n) == [k |-> "number", n |-> n]
Obj(fields) == [k |-> "object", f |-> fields]

\* JavaScript truthiness: undefined, null, '' and 0 are falsy.
Truthy(v) ==
    CASE v.k = "undefined" -> FALSE
      [] v.k = "null" -> FALSE
      [] v.k = "string" -> v.s # <<>>
      [] v.k = "number" -> v.n # 0
      [] OTHER -> TRUE

\* a || b
Or(a, b) == IF Truthy(a) THEN a ELSE b

\* obj.name for an object value (undefined when the property is missing)
Get(o, name) == IF name \in DOMAIN o.f THEN o.f[name] ELSE Undef

RECURSIVE JsLength(_)
\* String.prototype.length: the number of characters of a text
JsLength(t) == IF t = <<>> THEN 0 ELSE Len(Head(t)) + JsLength(Tail(t))

RECURSIVE TrimStart(_)
TrimStart(t) == IF t # <<>> /\ Head(t) = " " THEN TrimStart(Tail(t)) ELSE t

RECURSIVE TrimEnd(_)
TrimEnd(t) ==
    IF t # <<>> /\ t[Len(t)] = " " THEN TrimEnd(SubSeq(t, 1, Len(t) - 1)) ELSE t

\* String.prototype.trim on a text of one-character atoms
Trim(t) == TrimEnd(TrimStart(t))

\* `${Date.now()}` inside a template literal
TimeToken(t) == ToString(t)

\* `${v}` inside a template literal
Interp(v) ==
    CASE v.k = "string" -> v.s
      [] v.k = "number" -> <<ToString(v.n)>>
      [] v.k = "null" -> <<"null">>
      [] v.k = "undefined" -> <<"undefined">>
      [] OTHER -> <<"[object Object]">>

(* ------------------------------ Generator ----------------------------- *)

Files == {"part_001", "server.js"}

\* generateFallbackTemplate of part_001 (a stub: three fixed texts)
generateFallbackTemplateStub(message) ==
    [html |-> Str(<<"<!DOCTYPE html>...">>),
     css |-> Str(<<"/* CSS Code */...">>),
     js |-> Str(<<"// JavaScript Code...">>)]

\* generateFallbackTemplate of server.js: the description is embedded in the
\* title and in the hero heading; styles and script are fixed.
generateFallbackTemplateFull(message) ==
    [html |-> Str(<<"<!DOCTYPE html>...<title>">> \o Interp(message)
                  \o <<" | Happy AI Builder</title>...<h1 class=glow-text>">>
                  \o Interp(message) \o <<"</h1>...</html>">>),
     css |-> Str(<<"/* Happy AI Website Builder - Modern Dark Theme */...">>),
     js |-> Str(<<"// Happy AI Website Builder - JavaScript...">>)]

generateFallbackTemplate(file, message) ==
    IF file = "server.js" THEN generateFallbackTemplateFull(message)
    ELSE generateFallbackTemplateStub(message)

generateFallbackResponse(file, message) ==
    [message |-> Str(<<"I created a \"">> \o Interp(message)
                     \o <<"\" website for you!">>),
     code |-> generateFallbackTemplate(file, message)]

\* What the completion endpoint can answer.  A 2xx answer carries a body:
\* without choices, with content that is no JSON, or with content that
\* parses to a value.
AiStr(name) == Str(<<"ai:", name>>)
AiFieldVals(name) == {Undef, Null, Str(<<>>), AiStr(name)}
AiObjects ==
    {Obj([html |-> h, css |-> c, js |-> j, message |-> m]) :
        h \in AiFieldVals("html"), c \in AiFieldVals("css"),
        j \in AiFieldVals("js"), m \in {Undef, AiStr("message")}}
    \cup {Obj([js |-> AiStr("js")]), Obj(<<>>)}
ModelBodies ==
    {[shape |-> "noChoices"], [shape |-> "notJson"]}
    \cup {[shape |-> "json", v |-> v] : v \in {Null, Num(7)} \cup AiObjects}
ModelOutcomes ==
    {[t |-> "timeout"], [t |-> "http", status |-> 500], [t |-> "network"]}
    \cup {[t |-> "ok", body |-> b] : b \in ModelBodies}

\* aiData.name: a property read throws on null, gives undefined on a number
Prop(v, name) == IF v.k = "object" THEN Get(v, name) ELSE Undef

\* A variant that keeps whatever the model sent for a field.
generateAIResponseKeepFields(file, message, outcome) ==
    IF outcome.t # "ok" THEN generateFallbackResponse(file, message)
    ELSE IF outcome.body.shape # "json" THEN generateFallbackResponse(file, message)
    ELSE IF outcome.body.v.k = "null" THEN generateFallbackResponse(file, message)
    ELSE LET aiData == outcome.body.v IN
        [message |-> Or(Prop(aiData, "message"), Str(<<"I created a website for you!">>)),
         code |-> [html |-> Prop(aiData, "html"), css |-> Prop(aiData, "css"),
                   js |-> Prop(aiData, "js")]]

\* A variant that substitutes the whole template as soon as one field is
\* missing.
generateAIResponseAllOrNothing(file, message, outcome) ==
    IF outcome.t # "ok" THEN generateFallbackResponse(file, message)
    ELSE IF outcome.body.shape # "json" THEN generateFallbackResponse(file, message)
    ELSE IF outcome.body.v.k = "null" THEN generateFallbackResponse(file, message)
    ELSE LET aiData == outcome.body.v IN
        IF \A f \in {"html", "css", "js"} : Truthy(Prop(aiData, f))
        THEN [message |-> Or(Prop(aiData, "message"), Str(<<"I created a website for you!">>)),
              code |-> [html |-> Prop(aiData, "html"), css |-> Prop(aiData, "css"),
                        js |-> Prop(aiData, "js")]]
        ELSE generateFallbackResponse(file, message)

\* A variant whose outer catch builds the template for a fixed description.
generateAIResponseFixedDescription(file, message, outcome) ==
    IF outcome.t # "ok"
    THEN generateFallbackResponse(file, Str(<<"AI generated website">>))
    ELSE IF outcome.body.shape # "json" THEN generateFallbackResponse(file, message)
    ELSE IF outcome.body.v.k = "null" THEN generateFallbackResponse(file, message)
    ELSE LET aiData == outcome.body.v IN
        [message |-> Or(Prop(aiData, "message"), Str(<<"I created a website for you!">>)),
         code |-> [html |-> Or(Prop(aiData, "html"), generateFallbackTemplate(file, message).html),
                   css |-> Or(Prop(aiData, "css"), generateFallbackTemplate(file, message).css),
                   js |-> Or(Prop(aiData, "js"), generateFallbackTemplate(file, message).js)]]

\* generateAIResponse from the return of axios.post on: the inner try that
\* parses the content and falls back field by field, its catch, and the
\* outer catch for a rejected call.
generateAIResponseAfterCall(file, message, outcome) ==
    IF outcome.t # "ok" THEN generateFallbackResponse(file, message)
    ELSE IF outcome.body.shape # "json" THEN generateFallbackResponse(file, message)
    ELSE IF outcome.body.v.k = "null" THEN generateFallbackResponse(file, message)
    ELSE LET aiData == outcome.body.v IN
        [message |-> Or(Prop(aiData, "message"), Str(<<"I created a website for you!">>)),
         code |-> [html |-> Or(Prop(aiData, "html"), generateFallbackTemplate(file, message).html),
                   css |-> Or(Prop(aiData, "css"), generateFallbackTemplate(file, message).css),
                   js |-> Or(Prop(aiData, "js"), generateFallbackTemplate(file, message).js)]]

\* Building the request of generateAIResponse reads currentCode.html: a null
\* currentCode throws before any call is issued (the default {} replaces
\* undefined only).
PromptThrows(currentCode) == currentCode.k = "null"

(* ------------------------- requests and responses --------------------- *)

NoResp == [status |-> 0]
NoLoc == [repoName |-> Undef, username |-> Undef, repo |-> Undef, i |-> 0,
          githubData |-> Undef, code |-> Undef, length |-> 0]
NoInp == [api |-> "none"]

ChatMessages ==
    {Undef, Num(42), Str(<<>>), Str(<<"h", "i">>), Str(<<" ", "h", "i", " ">>),
     Str(<<"h", "i", "!">>), Str(<<"b", "l", "o", "g">>)}
CurrentCodes == {Undef, Null, Obj([html |-> Str(<<"<p>old</p>">>)])}

Html == Str(<<"<h1>site</h1>">>)
Projects ==
    {Undef, Obj(<<>>), Obj([html |-> Str(<<>>)]), Obj([html |-> Html]),
     Obj([html |-> Html, css |-> Str(<<"body{}">>), js |-> Str(<<"run()">>),
          name |-> Str(<<"bakery">>)])}

\* res.json(body) / res.status(code).json(body): the handler's one response
Respond(r, body) ==
    /\ resp' = [resp EXCEPT ![r] = body]
    /\ pc' = [pc EXCEPT ![r] = "done"]

\* A variant of a handler that goes on without awaiting its call.
AnswerNotAwaited(r, outcome) == UNCHANGED answers

\* the call in flight returns or rejects with outcome
Answer(r, outcome) == answers' = [answers EXCEPT ![r] = Append(@, outcome)]

\* an outbound call is issued and the handler suspends on it
Issue(r, call, at) ==
    /\ calls' = [calls EXCEPT ![r] = Append(@, call)]
    /\ pc' = [pc EXCEPT ![r] = at]

(* ------------------------------ POST /api/chat ------------------------ *)

\* message.trim().length < 3
ChatMinLength == 3

\* A variant that measures the message as typed.
MessageTooShortUntrimmed(message) == JsLength(message.s) < ChatMinLength

\* message.trim().length < 3, for a message that is a string
MessageTooShort(message) == JsLength(Trim(message.s)) < ChatMinLength

ChatInvalid ==
    [status |-> 400, success |-> FALSE,
     response |-> Str(<<"Please enter a valid message (min 3 characters)">>),
     code |-> Null]

ChatOk(aiResponse) ==
    [status |-> 200, success |-> TRUE, response |-> aiResponse.message,
     code |-> aiResponse.code]

ChatCaught(file) ==
    [status |-> 200, success |-> FALSE,
     response |-> Str(<<"I created a website for you! Check the preview.">>),
     code |-> generateFallbackTemplate(file, Str(<<"AI generated website">>))]

\* The handler up to its first await: validation, then generateAIResponse
\* up to axios.post (or to its return when no call is made).
ChatReceive(r) ==
    /\ pc[r] = "idle"
    /\ \E file \in Files, message \in ChatMessages, currentCode \in CurrentCodes :
        /\ inp' = [inp EXCEPT ![r] = [api |-> "chat", file |-> file,
                                      message |-> message, currentCode |-> currentCode]]
        /\ IF ~Truthy(message) THEN
               Respond(r, ChatInvalid) /\ UNCHANGED calls
           ELSE IF message.k # "string" THEN
               \* message.trim is not a function: the handler's catch answers
               Respond(r, ChatCaught(file)) /\ UNCHANGED calls
           ELSE IF MessageTooShort(message) THEN
               Respond(r, ChatInvalid) /\ UNCHANGED calls
           ELSE IF ~cfg.deepseek THEN
               Respond(r, ChatOk(generateFallbackResponse(file, message)))
               /\ UNCHANGED calls
           ELSE IF PromptThrows(currentCode) THEN
               Respond(r, ChatOk(generateFallbackResponse(file, message)))
               /\ UNCHANGED calls
           ELSE
               Issue(r, [api |-> "deepseek", op |-> "chat/completions"], "chat.model")
               /\ UNCHANGED resp
    /\ UNCHANGED <<cfg, now, loc, answers, userSessions, seen>>

\* axios.post returns or rejects (timeout after 30 s included)
ChatModelReturn(r) ==
    /\ pc[r] = "chat.model"
    /\ \E outcome \in ModelOutcomes :
        /\ Answer(r, outcome)
        /\ Respond(r, ChatOk(generateAIResponseAfterCall(inp[r].file, inp[r].message,
                                                          outcome)))
    /\ UNCHANGED <<cfg, now, inp, loc, calls, userSessions, seen>>

(* --------------------------- Source Publisher ------------------------- *)

\* What the source-hosting API can answer.  An error carries the HTTP status
\* (0: none, a transport failure) and a message.
GitHubErrors ==
    {[status |-> 401, message |-> Str(<<"Bad credentials">>)],
     [status |-> 422, message |-> Str(<<"Validation Failed">>)],
     [status |-> 500, message |-> Str(<<"Server Error">>)],
     [status |-> 0, message |-> Str(<<"connect ETIMEDOUT">>)]}
Login == Str(<<"octocat">>)
UserOutcomes == {[t |-> "ok", login |-> Login], [t |-> "fail"]}
RepoOutcomes == {[t |-> "ok"]} \cup {[t |-> "fail", error |-> e] : e \in GitHubErrors}
FileOutcomes == RepoOutcomes

\* A variant whose catch returns an empty name.
getGitHubUsernameEmpty(outcome) ==
    IF outcome.t = "ok" THEN outcome.login ELSE Str(<<>>)

\* getGitHubUsername: the login, or the placeholder identity on any failure
getGitHubUsername(outcome) ==
    IF outcome.t = "ok" THEN outcome.login ELSE Str(<<"happy-ai-user">>)

\* `happy-website-${Date.now()}`
RepoName(t) == Str(<<"happy-website-", TimeToken(t)>>)

\* repo.data of a created repository: the service names it after the
\* account the credential belongs to
RepoData(repoName) ==
    [html_url |-> Str(<<"https://github.com/">> \o Login.s \o <<"/">> \o repoName.s),
     clone_url |-> Str(<<"https://github.com/">> \o Login.s \o <<"/">> \o repoName.s
                       \o <<".git">>)]

\* A variant whose files array starts with the styles.
FilePathsStylesFirst == <<"style.css", "index.html", "script.js", "README.md">>

\* the files array of createGitHubRepository, in its order
FilePaths == <<"index.html", "style.css", "script.js", "README.md">>

\* Buffer.from(text).toString('base64')
Base64(v) == Str(<<"base64(">> \o v.s \o <<")">>)

FileContent(file, project, i) ==
    CASE i = 1 -> Base64(Get(project, "html"))
      [] i = 2 -> Base64(Or(Get(project, "css"), generateFallbackTemplate(file, Str(<<>>)).css))
      [] i = 3 -> Base64(Or(Get(project, "js"), generateFallbackTemplate(file, Str(<<>>)).js))
      [] OTHER -> Base64(Str(<<"# Happy AI Website Builder...">>))

\* A variant whose 422 branch throws the text of the 401 branch.
ConvertGitHubErrorSameText(error) ==
    IF error.status = 401 \/ error.status = 422
    THEN [status |-> 0,
          message |-> Str(<<"Invalid GitHub token. Please check your GITHUB_TOKEN.">>)]
    ELSE error

\* the catch of createGitHubRepository: 401 and 422 become its own errors,
\* anything else is rethrown as it came
ConvertGitHubError(error) ==
    IF error.status = 401
    THEN [status |-> 0,
          message |-> Str(<<"Invalid GitHub token. Please check your GITHUB_TOKEN.">>)]
    ELSE IF error.status = 422
    THEN [status |-> 0,
          message |-> Str(<<"Repository might already exist or name is invalid.">>)]
    ELSE error

\* createGitHubRepository entered without a credential throws before any
\* call; its catch rethrows the error as it is (no status)
MissingTokenError == [status |-> 0, message |-> Str(<<"GitHub token not configured">>)]
createGitHubRepositoryEnter(token) ==
    IF ~token THEN [throws |-> TRUE, error |-> ConvertGitHubError(MissingTokenError)]
    ELSE [throws |-> FALSE]

\* `${username}/${repoName}`
FullName(username, repoName) == Str(username.s \o <<"/">> \o repoName.s)

(* --------------------------- Deployment Trigger ----------------------- *)

VercelOutcomes ==
    {[t |-> "ok", url |-> Str(<<"happy-abc123">>)], [t |-> "ok", url |-> Undef],
     [t |-> "fail", status |-> 403], [t |-> "fail", status |-> 0]}

\* A variant that takes the prefix of the handler's catch.
MockVercelUrlOtherPrefix(t) ==
    Str(<<"https://", "happy-fallback-", TimeToken(t), ".vercel.app">>)

\* `https://happy-website-${Date.now()}.vercel.app`
MockVercelUrl(t) == Str(<<"https://", "happy-website-", TimeToken(t), ".vercel.app">>)

\* `https://${deployment.data.url}.vercel.app`
DeploymentUrl(url) == Str(<<"https://">> \o Interp(url) \o <<".vercel.app">>)

\* A variant that tests the deployment credential alone.
VercelCallTokenOnly(repoName, project, file) ==
    IF cfg.vercel
    THEN [api |-> "vercel", op |-> "deployments", strategy |-> "git",
          repo |-> repoName, ref |-> "main"]
    ELSE [api |-> "vercel", op |-> "deployments", strategy |-> "files",
          files |-> <<"index.html", "style.css", "script.js", "vercel.json">>,
          data |-> <<Get(project, "html"),
                     Or(Get(project, "css"), generateFallbackTemplate(file, Str(<<>>)).css),
                     Or(Get(project, "js"), generateFallbackTemplate(file, Str(<<>>)).js)>>]

\* deployToVercel picks its strategy from the configuration alone
VercelCall(repoName, project, file) ==
    IF cfg.vercel /\ cfg.project
    THEN [api |-> "vercel", op |-> "deployments", strategy |-> "git",
          repo |-> repoName, ref |-> "main"]
    ELSE [api |-> "vercel", op |-> "deployments", strategy |-> "files",
          files |-> <<"index.html", "style.css", "script.js", "vercel.json">>,
          data |-> <<Get(project, "html"),
                     Or(Get(project, "css"), generateFallbackTemplate(file, Str(<<>>)).css),
                     Or(Get(project, "js"), generateFallbackTemplate(file, Str(<<>>)).js)>>]

\* A variant whose catch returns nothing.
deployToVercelNoReturn(outcome, t) ==
    IF outcome.t = "ok" THEN DeploymentUrl(outcome.url) ELSE Undef

\* deployToVercel from the return of axios.post on: the URL of the
\* deployment, or the mock URL of its catch
deployToVercelAfterCall(outcome, t) ==
    IF outcome.t = "ok" THEN DeploymentUrl(outcome.url) ELSE MockVercelUrl(t)

(* ------------------------------ POST /api/deploy ---------------------- *)

DeployInvalid ==
    [status |-> 400, success |-> FALSE, error |-> Str(<<"Invalid project data">>),
     url |-> Str(<<>>), github |-> Str(<<>>)]

\* A variant that reports failure when the URL is the mock one.
DeployOkFailsWhenMock(vercelUrl, githubData) ==
    [status |-> 200,
     success |-> ~(Len(vercelUrl.s) > 1 /\ vercelUrl.s[2] = "happy-website-"),
     url |-> vercelUrl, github |-> githubData.url,
     message |-> Str(<<"Website deployed successfully!">>)]

\* A variant that flags a mock URL in the response.
DeployOkFlagged(vercelUrl, githubData) ==
    [status |-> 200, success |-> TRUE, url |-> vercelUrl, github |-> githubData.url,
     message |-> Str(<<"Website deployed successfully!">>),
     degraded |-> (Len(vercelUrl.s) > 1 /\ vercelUrl.s[2] = "happy-website-")]

DeployOk(vercelUrl, githubData) ==
    [status |-> 200, success |-> TRUE, url |-> vercelUrl, github |-> githubData.url,
     message |-> Str(<<"Website deployed successfully!">>)]

\* A variant whose catch still reports success.
DeployCaughtAsSuccess(error, t) ==
    [status |-> 200, success |-> TRUE,
     url |-> Str(<<"https://", "happy-fallback-", TimeToken(t), ".vercel.app">>),
     github |-> Str(<<"https://github.com/", "happy-ai", "/", "fallback-repo">>),
     error |-> Or(error.message, Str(<<"Deployment failed, but here are demo URLs">>)),
     message |-> Str(<<"Demo URLs generated. For real deployment, check API keys.">>)]

\* A variant whose catch answers with the error alone, as the catch of
\* /api/generate-website does.
DeployCaughtBare(error, t) ==
    [status |-> 500, success |-> FALSE, url |-> Str(<<>>), github |-> Str(<<>>),
     error |-> Or(error.message, Str(<<"Deployment failed">>))]

\* the catch of the handler: mock URLs for both, the error's message
DeployCaught(error, t) ==
    [status |-> 200, success |-> FALSE,
     url |-> Str(<<"https://", "happy-fallback-", TimeToken(t), ".vercel.app">>),
     github |-> Str(<<"https://github.com/", "happy-ai", "/", "fallback-repo">>),
     error |-> Or(error.message, Str(<<"Deployment failed, but here are demo URLs">>)),
     message |-> Str(<<"Demo URLs generated. For real deployment, check API keys.">>)]

\* A variant whose repoName lacks the owner.
MockGithubDataNoOwner(t1, t2) ==
    [url |-> Str(<<"https://github.com/", "happy-ai", "/", "website-", TimeToken(t1)>>),
     repoName |-> Str(<<"website-", TimeToken(t2)>>)]

\* the mock githubData of the handler; its two Date.now() reads are t1 <= t2
MockGithubData(t1, t2) ==
    [url |-> Str(<<"https://github.com/", "happy-ai", "/", "website-", TimeToken(t1)>>),
     repoName |-> Str(<<"happy-ai", "/", "website-", TimeToken(t2)>>)]

\* Step 2 of the handler, entered with githubData: deployToVercel up to its
\* axios.post when a deployment credential is configured, else the mock URL
\* and the response.
DeployStep2(r, project, githubData) ==
    IF cfg.vercel /\ Truthy(githubData.repoName)
    THEN /\ Issue(r, VercelCall(githubData.repoName, project, "part_001"), "deploy.vercel")
         /\ UNCHANGED resp
    ELSE /\ Respond(r, DeployOk(MockVercelUrl(now'), githubData))
         /\ UNCHANGED calls

\* !project || !project.html
InvalidProject(project) == ~Truthy(project) \/ ~Truthy(Get(project, "html"))

DeployReceive(r) ==
    /\ pc[r] = "idle"
    /\ \E project \in Projects :
        /\ inp' = [inp EXCEPT ![r] = [api |-> "deploy", project |-> project]]
        /\ IF InvalidProject(project) THEN
               /\ Respond(r, DeployInvalid)
               /\ UNCHANGED <<calls, loc, now>>
           ELSE IF cfg.github THEN
               \* createGitHubRepository up to the await of getGitHubUsername
               IF createGitHubRepositoryEnter(cfg.github).throws THEN
                   /\ Respond(r, DeployCaught(createGitHubRepositoryEnter(cfg.github).error,
                                              now))
                   /\ UNCHANGED <<calls, loc, now>>
               ELSE
                   /\ loc' = [loc EXCEPT ![r].repoName = RepoName(now)]
                   /\ Issue(r, [api |-> "github", op |-> "users.getAuthenticated"],
                            "deploy.user")
                   /\ UNCHANGED <<resp, now>>
           ELSE
               \E t2 \in now..(IF now < MaxClock THEN now + 1 ELSE now) :
                   /\ now' = t2
                   /\ loc' = [loc EXCEPT ![r].githubData = MockGithubData(now, t2)]
                   /\ DeployStep2(r, project, MockGithubData(now, t2))
    /\ UNCHANGED <<cfg, answers, userSessions, seen>>

DeployUserReturn(r) ==
    /\ pc[r] = "deploy.user"
    /\ \E outcome \in UserOutcomes :
        /\ Answer(r, outcome)
        /\ loc' = [loc EXCEPT ![r].username = getGitHubUsername(outcome)]
        /\ Issue(r, [api |-> "github", op |-> "repos.createForAuthenticatedUser",
                      name |-> loc[r].repoName, auto_init |-> FALSE], "deploy.repo")
    /\ UNCHANGED <<cfg, now, inp, resp, userSessions, seen>>

\* A variant whose loop writes a file again before it moves on.
FileCallAgain(r, i) ==
    [api |-> "github", op |-> "repos.createOrUpdateFileContents",
     owner |-> loc[r].username, repo |-> loc[r].repoName,
     path |-> FilePaths[IF i > 2 THEN i - 1 ELSE i],
     content |-> FileContent("part_001", inp[r].project, IF i > 2 THEN i - 1 ELSE i)]

\* createOrUpdateFileContents for files[i]
FileCall(r, i) ==
    [api |-> "github", op |-> "repos.createOrUpdateFileContents",
     owner |-> loc[r].username, repo |-> loc[r].repoName, path |-> FilePaths[i],
     content |-> FileContent("part_001", inp[r].project, i)]

\* A variant whose first write sits in the loop's try like the others.
WriteFailureThrowsNever(outcome, i) == FALSE

\* the write of files[0] is awaited outside the loop's try/catch: its
\* failure throws; a failure of files[1..] is caught and logged
WriteFailureThrows(outcome, i) == outcome.t = "fail" /\ i = 1

DeployRepoReturn(r) ==
    /\ pc[r] = "deploy.repo"
    /\ \E outcome \in RepoOutcomes :
        /\ Answer(r, outcome)
        /\ IF outcome.t = "ok" THEN
               /\ loc' = [loc EXCEPT ![r].repo = RepoData(loc[r].repoName), ![r].i = 1]
               /\ Issue(r, FileCall(r, 1), "deploy.file")
               /\ UNCHANGED resp
           ELSE
               /\ Respond(r, DeployCaught(ConvertGitHubError(outcome.error), now))
               /\ UNCHANGED <<loc, calls>>
    /\ UNCHANGED <<cfg, now, inp, userSessions, seen>>

DeployFileReturn(r) ==
    /\ pc[r] = "deploy.file"
    /\ \E outcome \in FileOutcomes :
        /\ Answer(r, outcome)
        /\ IF WriteFailureThrows(outcome, loc[r].i) THEN
               \* the initial commit failed: createGitHubRepository throws
               /\ Respond(r, DeployCaught(ConvertGitHubError(outcome.error), now))
               /\ UNCHANGED <<loc, calls, now>>
           ELSE IF loc[r].i < Len(FilePaths) THEN
               \* a later file's failure is logged; the loop goes on
               /\ loc' = [loc EXCEPT ![r].i = @ + 1]
               /\ Issue(r, FileCall(r, loc[r].i + 1), "deploy.file")
               /\ UNCHANGED <<resp, now>>
           ELSE
               LET githubData == [url |-> loc[r].repo.html_url,
                                  repoName |-> FullName(loc[r].username, loc[r].repoName),
                                  cloneUrl |-> loc[r].repo.clone_url]
               IN  /\ loc' = [loc EXCEPT ![r].githubData = githubData]
                   /\ now' = now
                   /\ DeployStep2(r, inp[r].project, githubData)
    /\ UNCHANGED <<cfg, inp, userSessions, seen>>

\* axios.post of deployToVercel returns or rejects; the handler responds
DeployVercelReturn(r) ==
    /\ pc[r] = "deploy.vercel"
    /\ \E outcome \in VercelOutcomes :
        /\ Answer(r, outcome)
        /\ Respond(r, DeployOk(deployToVercelAfterCall(outcome, now), loc[r].githubData))
    /\ UNCHANGED <<cfg, now, inp, loc, calls, userSessions, seen>>

(* ---------------- POST /api/generate-website (part_000) --------------- *)
(* The older pipeline: generate, publish and deploy in one handler, each   *)
(* step throwing into the handler's catch, which answers 500.              *)

Rep(c, n) == [i \in 1..n |-> c]
Descriptions == {Undef, Str(<<>>), Str(Rep("d", 9)), Str(Rep("d", 10)), Str(Rep("d", 12))}
AgentId == Str(<<"user42">>)

\* A call that carries no credential is not answered with success.
RemoteAnswers(outcomes, credential) ==
    IF credential THEN outcomes ELSE {o \in outcomes : o.t # "ok"}

createFallbackHTML(description) ==
    Str(<<"<!DOCTYPE html>...<title>">> \o Interp(description)
        \o <<"</title>...<h2>">> \o Interp(description) \o <<"</h2>...</html>">>)
createFallbackCSS == Str(<<"* { margin: 0; padding: 0; box-sizing: border-box; }...">>)
createFallbackJS == Str(<<"console.log('Website loaded');">>)

\* generateWebsiteCode from the return of axios.post on: the parsed content
\* as it is, or the fallback template when the call or the parse throws
generateWebsiteCodeAfterCall(description, outcome) ==
    IF outcome.t = "ok" /\ outcome.body.shape = "json" THEN outcome.body.v
    ELSE Obj([html |-> createFallbackHTML(description), css |-> createFallbackCSS,
              js |-> createFallbackJS])

\* description.length < 10
MinDescription == 10

\* A variant whose threshold is one short.
DescriptionTooShortOffByOne(description) ==
    ~Truthy(description) \/ JsLength(description.s) < MinDescription - 1

\* !description || description.length < 10
DescriptionTooShort(description) ==
    ~Truthy(description) \/ JsLength(description.s) < MinDescription

GenInvalid ==
    [status |-> 400, success |-> FALSE,
     error |-> Str(<<"Please provide detailed description">>)]

\* message.length < 20, in the chat handler of part_000
ClarifyLength == 20

\* the clarification the chat handler of part_000 answers to a short wish
ChatClarify ==
    [status |-> 200, action |-> "clarify",
     response |-> Str(<<"Please describe your website in more detail. ",
                        "What kind of website do you want?">>)]

GenCaught(message) == [status |-> 500, success |-> FALSE, error |-> Str(<<message>>)]

GenOk(vercelUrl, githubRepo, agentId) ==
    [status |-> 200, success |-> TRUE, url |-> vercelUrl, github |-> githubRepo.url,
     message |-> Str(<<"Website created and deployed!">>), agentId |-> agentId]

GenFilePaths == <<"index.html", "style.css", "script.js">>
GenFields == <<"html", "css", "js">>

\* Buffer.from(code.field) throws unless the field is a string
BufferThrows(code, i) == code.k # "object" \/ Get(code, GenFields[i]).k # "string"

GenFileCall(r, i) ==
    [api |-> "github", op |-> "repos.createOrUpdateFileContents",
     owner |-> Login, repo |-> loc[r].repoName, path |-> GenFilePaths[i],
     content |-> Base64(Get(loc[r].code, GenFields[i]))]

GenerateReceive(r) ==
    /\ pc[r] = "idle"
    /\ \E description \in Descriptions :
        /\ inp' = [inp EXCEPT ![r] = [api |-> "generate-website",
                                      description |-> description, agentId |-> AgentId]]
        /\ IF DescriptionTooShort(description) THEN
               Respond(r, GenInvalid) /\ UNCHANGED calls
           ELSE
               Issue(r, [api |-> "deepseek", op |-> "chat/completions"], "gen.model")
               /\ UNCHANGED resp
    /\ UNCHANGED <<cfg, now, loc, answers, userSessions, seen>>

\* generateWebsiteCode returns; createGitHubRepository runs to its first await
GenModelReturn(r) ==
    /\ pc[r] = "gen.model"
    /\ \E outcome \in RemoteAnswers(ModelOutcomes, cfg.deepseek) :
        /\ Answer(r, outcome)
        /\ loc' = [loc EXCEPT
                      ![r].code = generateWebsiteCodeAfterCall(inp[r].description, outcome),
                      ![r].repoName = Str(<<"website-">> \o Interp(inp[r].agentId)
                                          \o <<"-", TimeToken(now)>>)]
        /\ Issue(r, [api |-> "github", op |-> "repos.createForAuthenticatedUser",
                      name |-> loc'[r].repoName, auto_init |-> FALSE], "gen.repo")
    /\ UNCHANGED <<cfg, now, inp, resp, userSessions, seen>>

GenRepoReturn(r) ==
    /\ pc[r] = "gen.repo"
    /\ \E outcome \in RemoteAnswers(RepoOutcomes, cfg.github) :
        /\ Answer(r, outcome)
        /\ IF outcome.t = "ok" /\ ~BufferThrows(loc[r].code, 1) THEN
               /\ loc' = [loc EXCEPT ![r].repo = RepoData(loc[r].repoName), ![r].i = 1]
               /\ Issue(r, GenFileCall(r, 1), "gen.file")
               /\ UNCHANGED resp
           ELSE
               /\ Respond(r, GenCaught("Failed to create GitHub repository"))
               /\ UNCHANGED <<loc, calls>>
    /\ UNCHANGED <<cfg, now, inp, userSessions, seen>>

\* `https://${response.data.url}` is issued for repoFullName
GenVercelCall(fullName) ==
    [api |-> "vercel", op |-> "deployments", strategy |-> "git",
     repo |-> fullName, ref |-> "main"]

GenFileReturn(r) ==
    /\ pc[r] = "gen.file"
    /\ \E outcome \in FileOutcomes :
        /\ Answer(r, outcome)
        /\ IF outcome.t = "fail" THEN
               /\ Respond(r, GenCaught("Failed to create GitHub repository"))
               /\ UNCHANGED <<loc, calls>>
           ELSE IF loc[r].i < Len(GenFilePaths) THEN
               IF BufferThrows(loc[r].code, loc[r].i + 1) THEN
                   /\ Respond(r, GenCaught("Failed to create GitHub repository"))
                   /\ UNCHANGED <<loc, calls>>
               ELSE
                   /\ loc' = [loc EXCEPT ![r].i = @ + 1]
                   /\ Issue(r, GenFileCall(r, loc[r].i + 1), "gen.file")
                   /\ UNCHANGED resp
           ELSE
               LET githubRepo == [url |-> loc[r].repo.html_url,
                                  fullName |-> FullName(Login, loc[r].repoName)]
               IN  /\ loc' = [loc EXCEPT ![r].githubData = githubRepo]
                   /\ Issue(r, GenVercelCall(githubRepo.fullName), "gen.vercel")
                   /\ UNCHANGED resp
    /\ UNCHANGED <<cfg, now, inp, userSessions, seen>>

GenVercelReturn(r) ==
    /\ pc[r] = "gen.vercel"
    /\ \E outcome \in RemoteAnswers(VercelOutcomes, cfg.vercel) :
        /\ Answer(r, outcome)
        /\ IF outcome.t = "ok" THEN
               Respond(r, GenOk(Str(<<"https://">> \o Interp(outcome.url)),
                                loc[r].githubData, inp[r].agentId))
           ELSE
               Respond(r, GenCaught("Failed to deploy to Vercel"))
    /\ UNCHANGED <<cfg, now, inp, loc, calls, userSessions, seen>>

(* ---------------------------- Session Store --------------------------- *)
(* userSessions, GET /api/history/:userId and POST /api/save.  Both        *)
(* handlers are synchronous: each runs from the request to its response    *)
(* in one step, and reads the clock once.                                  *)

\* userData.projects.length > 20, slice(0, 20)
MaxProjects == 20
\* userData.projects.slice(0, 10)
HistoryLimit == 10
\* project.html.substring(0, 200)
PreviewLength == 200

Alice == Str(<<"alice">>)
Bob == Str(<<"bob">>)
\* req.params.userId is a string; req.body.userId may be missing
UserIds == {Alice, Bob}
Keys == UserIds \cup {Undef}

Page == Str(<<"<", "p", ">">>)
FullProject ==
    Obj([name |-> Str(<<"bakery">>), html |-> Page, css |-> Str(<<"body{}">>),
         js |-> Str(<<"run()">>)])
\* req.body.project of the many-client runs: missing, or without any field
SaveProjects == {Undef, Obj(<<>>)}

\* What the clients of a key were answered since its last save: nothing yet,
\* or the first history response and the latest one after it.
NoSeen == [k |-> "none"]
Observe(obs, body) ==
    IF obs = NoSeen THEN [first |-> body, last |-> NoSeen]
    ELSE [first |-> obs.first, last |-> body]

\* new Date()
DateOf(t) == [k |-> "date", t |-> t]

\* new Date().toISOString(), for a clock below 10 ms
IsoString(t) == Str(<<"1970-01-01T00:00:00.00", TimeToken(t), "Z">>)

\* String.prototype.substring(0, n) on a text of one-character atoms
Substring(t, n) == SubSeq(t, 1, IF Len(t) < n THEN Len(t) ELSE n)

\* A variant that starts the Map anew when the key is missing.
getOrCreateNewMap(sessions, userId, t) ==
    IF sessions[userId] = Undef
    THEN [k \in DOMAIN sessions |->
              IF k = userId
              THEN [userId |-> userId, projects |-> <<>>, createdAt |-> DateOf(t)]
              ELSE Undef]
    ELSE sessions

\* A variant without the has() test: every reference sets a new session.
getOrCreateAlwaysSets(sessions, userId, t) ==
    [sessions EXCEPT ![userId] =
         [userId |-> userId, projects |-> <<>>, createdAt |-> DateOf(t)]]

\* A variant that stamps createdAt again on every reference.
getOrCreateRestamps(sessions, userId, t) ==
    IF sessions[userId] = Undef
    THEN [sessions EXCEPT ![userId] =
              [userId |-> userId, projects |-> <<>>, createdAt |-> DateOf(t)]]
    ELSE [sessions EXCEPT ![userId].createdAt = DateOf(t)]

\* if (!userSessions.has(userId)) userSessions.set(userId, {...})
getOrCreate(sessions, userId, t) ==
    IF sessions[userId] = Undef
    THEN [sessions EXCEPT ![userId] =
              [userId |-> userId, projects |-> <<>>, createdAt |-> DateOf(t)]]
    ELSE sessions

\* the entry POST /api/save builds from project at clock reading t
SavedProject(project, t) ==
    [id |-> Str(<<"project_", TimeToken(t)>>),
     name |-> Or(Get(project, "name"), Str(<<"Untitled">>)),
     preview |-> IF Truthy(Get(project, "html"))
                 THEN Str(Substring(Get(project, "html").s, PreviewLength) \o <<"...">>)
                 ELSE Str(<<>>),
     timestamp |-> IsoString(t),
     code |-> [html |-> Or(Get(project, "html"), Str(<<>>)),
               css |-> Or(Get(project, "css"), Str(<<>>)),
               js |-> Or(Get(project, "js"), Str(<<>>))]]

\* A variant whose trim is slice(-20): it keeps the last 20.
recordProjectKeepsLast(projects, entry) ==
    LET all == <<entry>> \o projects
    IN  IF Len(all) > MaxProjects THEN SubSeq(all, Len(all) - MaxProjects + 1, Len(all))
        ELSE all

\* A variant that writes back a list read before the other saves: the entry
\* alone.
recordProjectOverwrites(projects, entry) == <<entry>>

\* projects.unshift(entry), then the trim to the first 20
recordProject(projects, entry) ==
    LET all == <<entry>> \o projects
    IN  IF Len(all) > MaxProjects THEN SubSeq(all, 1, MaxProjects) ELSE all

\* project.name throws a TypeError when project is undefined or null
ProjectThrows(project) == project.k \in {"undefined", "null"}

SaveOk(projects) ==
    [status |-> 200, success |-> TRUE,
     message |-> Str(<<"Project saved successfully">>), projectId |-> projects[1].id]

SaveCaught(project) ==
    [status |-> 200, success |-> FALSE,
     error |-> Str(<<"Cannot read properties of ">> \o Interp(project)
                   \o <<" (reading 'name')">>)]

\* A variant that answers every stored entry.
HistoryOkAll(projects) ==
    [status |-> 200, success |-> TRUE, history |-> projects, total |-> Len(projects)]

\* history: userData.projects.slice(0, 10), total: userData.projects.length
HistoryOk(projects) ==
    [status |-> 200, success |-> TRUE,
     history |-> SubSeq(projects, 1,
                        IF Len(projects) < HistoryLimit THEN Len(projects)
                        ELSE HistoryLimit),
     total |-> Len(projects)]

\* POST /api/save with userId among userIds and project among projects
SaveReceive(r, userIds, projects) ==
    /\ pc[r] = "idle"
    /\ \E userId \in userIds, project \in projects :
        LET created == getOrCreate(userSessions, userId, now)
            saved == recordProject(created[userId].projects, SavedProject(project, now))
        IN  /\ inp' = [inp EXCEPT ![r] = [api |-> "save", userId |-> userId,
                                          project |-> project]]
            /\ IF ProjectThrows(project) THEN
                   \* the session is created before project.name throws
                   /\ userSessions' = created
                   /\ Respond(r, SaveCaught(project))
                   /\ UNCHANGED <<seen, loc>>
               ELSE
                   \* loc.length: userData.projects.length as the trim's test reads it
                   /\ userSessions' = [created EXCEPT ![userId].projects = saved]
                   /\ loc' = [loc EXCEPT ![r].length = Len(created[userId].projects) + 1]
                   /\ Respond(r, SaveOk(saved))
                   /\ seen' = [seen EXCEPT ![userId] = NoSeen]
    /\ UNCHANGED <<cfg, now, calls, answers>>

\* GET /api/history/:userId with userId among userIds
HistoryReceive(r, userIds) ==
    /\ pc[r] = "idle"
    /\ \E userId \in userIds :
        LET created == getOrCreate(userSessions, userId, now)
        IN  /\ inp' = [inp EXCEPT ![r] = [api |-> "history", userId |-> userId]]
            /\ userSessions' = created
            /\ Respond(r, HistoryOk(created[userId].projects))
            /\ seen' = [seen EXCEPT ![userId] = Observe(@, resp'[r])]
    /\ UNCHANGED <<cfg, now, loc, calls, answers>>

(* ------------------------------ the clock ----------------------------- *)

Tick ==
    /\ now < MaxClock
    /\ now' = now + 1
    /\ UNCHANGED <<cfg, pc, inp, loc, calls, answers, resp, userSessions, seen>>

\* the next request on a connection whose last one was answered
NewRequest(r) ==
    /\ pc[r] = "done"
    /\ pc' = [pc EXCEPT ![r] = "idle"]
    /\ inp' = [inp EXCEPT ![r] = NoInp]
    /\ loc' = [loc EXCEPT ![r] = NoLoc]
    /\ calls' = [calls EXCEPT ![r] = <<>>]
    /\ answers' = [answers EXCEPT ![r] = <<>>]
    /\ resp' = [resp EXCEPT ![r] = NoResp]
    /\ UNCHANGED <<cfg, now, userSessions, seen>>

(* ---------------------------- specification --------------------------- *)

Configs == [deepseek : BOOLEAN, github : BOOLEAN, vercel : BOOLEAN, project : BOOLEAN]

Init ==
    /\ cfg \in Configs
    /\ now = 0
    /\ pc = [r \in Reqs |-> "idle"]
    /\ inp = [r \in Reqs |-> NoInp]
    /\ loc = [r \in Reqs |-> NoLoc]
    /\ calls = [r \in Reqs |-> <<>>]
    /\ answers = [r \in Reqs |-> <<>>]
    /\ resp = [r \in Reqs |-> NoResp]
    /\ userSessions = [k \in Keys |-> Undef]
    /\ seen = [k \in Keys |-> NoSeen]

Next ==
    \/ Tick
    \/ \E r \in Reqs : ChatReceive(r)
    \/ \E r \in Reqs : ChatModelReturn(r)
    \/ \E r \in Reqs : DeployReceive(r)
    \/ \E r \in Reqs : DeployUserReturn(r)
    \/ \E r \in Reqs : DeployRepoReturn(r)
    \/ \E r \in Reqs : DeployFileReturn(r)
    \/ \E r \in Reqs : DeployVercelReturn(r)
    \/ \E r \in Reqs : GenerateReceive(r)
    \/ \E r \in Reqs : GenModelReturn(r)
    \/ \E r \in Reqs : GenRepoReturn(r)
    \/ \E r \in Reqs : GenFileReturn(r)
    \/ \E r \in Reqs : GenVercelReturn(r)
    \/ \E r \in Reqs : NewRequest(r)

Spec == Init /\ [][Next]_vars

(* --------------------- the session store on its own ------------------- *)

\* The entries stored over all keys.
RECURSIVE StoredIn(_, _)
StoredIn(sessions, keys) ==
    IF keys = {} THEN 0
    ELSE LET k == CHOOSE x \in keys : TRUE
         IN  (IF sessions[k] = Undef THEN 0 ELSE Len(sessions[k].projects))
             + StoredIn(sessions, keys \ {k})

\* SpecStore stops saving at MaxStored entries over all keys.
MaxStored == 2

NoneConfigured ==
    [deepseek |-> FALSE, github |-> FALSE, vercel |-> FALSE, project |-> FALSE]

InitStore == Init /\ cfg = NoneConfigured

\* every client of the store, a few saves each of a project without fields
NextStore ==
    \/ Tick
    \/ \E r \in Reqs : StoredIn(userSessions, Keys) < MaxStored
                        /\ SaveReceive(r, Keys, SaveProjects)
    \/ \E r \in Reqs : HistoryReceive(r, UserIds)
    \/ \E r \in Reqs : NewRequest(r)

SpecStore == InitStore /\ [][NextStore]_vars

\* one client saving one project again and again
NextCapacity ==
    \/ Tick
    \/ \E r \in Reqs : SaveReceive(r, {Alice}, {FullProject})
    \/ \E r \in Reqs : HistoryReceive(r, {Alice})
    \/ \E r \in Reqs : NewRequest(r)

SpecCapacity == InitStore /\ [][NextCapacity]_vars

(* ------------------------- two clients at a time ---------------------- *)

Clients == {"r1", "r2"}

\* GITHUB_TOKEN and DEEPSEEK_API_KEY set, no deployment credential
PublishOnly ==
    [deepseek |-> TRUE, github |-> TRUE, vercel |-> FALSE, project |-> FALSE]

InitPair ==
    /\ cfg = PublishOnly
    /\ now = 0
    /\ pc = [r \in Clients |-> "idle"]
    /\ inp = [r \in Clients |-> NoInp]
    /\ loc = [r \in Clients |-> NoLoc]
    /\ calls = [r \in Clients |-> <<>>]
    /\ answers = [r \in Clients |-> <<>>]
    /\ resp = [r \in Clients |-> NoResp]
    /\ userSessions = [k \in Keys |-> Undef]
    /\ seen = [k \in Keys |-> NoSeen]

\* the remote answers of these runs: success, or one failure per service
PairAnswers ==
    {[t |-> "ok"], [t |-> "ok", login |-> Login], [t |-> "timeout"],
     [t |-> "fail", error |-> [status |-> 422, message |-> Str(<<"Validation Failed">>)]]}

\* the call of r that returns in this step is answered among PairAnswers
AnsweredPlainly(r) == answers'[r][Len(answers'[r])] \in PairAnswers

\* the file write of r that returns in this step succeeded
Written(r) == answers'[r][Len(answers'[r])] = [t |-> "ok"]

\* two clients: chat with one message, deploy with one project, saves of one
\* user, the remote answers among PairAnswers, the file writes succeeding
NextPair ==
    \/ Tick
    \/ \E r \in Clients :
          ChatReceive(r)
          /\ inp'[r] = [api |-> "chat", file |-> "part_001",
                        message |-> Str(<<"b", "l", "o", "g">>), currentCode |-> Undef]
    \/ \E r \in Clients : ChatModelReturn(r) /\ AnsweredPlainly(r)
    \/ \E r \in Clients : DeployReceive(r) /\ inp'[r].project = Obj([html |-> Html])
    \/ \E r \in Clients : DeployUserReturn(r) /\ AnsweredPlainly(r)
    \/ \E r \in Clients : DeployRepoReturn(r) /\ AnsweredPlainly(r)
    \/ \E r \in Clients : DeployFileReturn(r) /\ Written(r)
    \/ \E r \in Clients : StoredIn(userSessions, Keys) < MaxStored
                           /\ SaveReceive(r, {Alice}, {Obj(<<>>)})
    \/ \E r \in Clients : NewRequest(r)

SpecPair == InitPair /\ [][NextPair]_vars

(* ----------------- the four services, calls that return --------------- *)

\* every credential set, or none
LiveConfigs ==
    {NoneConfigured,
     [deepseek |-> TRUE, github |-> TRUE, vercel |-> TRUE, project |-> TRUE]}

InitLive == Init /\ cfg \in LiveConfigs

\* the remote answers of these runs: of each service a success and a failure
LiveAnswers ==
    PairAnswers
    \cup {[t |-> "ok", body |-> [shape |-> "json", v |-> Obj([js |-> AiStr("js")])]],
          [t |-> "ok", body |-> [shape |-> "notJson"]],
          [t |-> "ok", url |-> Str(<<"happy-abc123">>)],
          [t |-> "fail", status |-> 403], [t |-> "fail"]}

\* the call of r that returns in this step is answered among LiveAnswers
AnsweredLive(r) == answers'[r][Len(answers'[r])] \in LiveAnswers

ChatModelReturnLive(r) == ChatModelReturn(r) /\ AnsweredLive(r)
DeployUserReturnLive(r) == DeployUserReturn(r) /\ AnsweredLive(r)
DeployRepoReturnLive(r) == DeployRepoReturn(r) /\ AnsweredLive(r)
DeployFileReturnLive(r) == DeployFileReturn(r) /\ AnsweredLive(r)
DeployVercelReturnLive(r) == DeployVercelReturn(r) /\ AnsweredLive(r)

\* chat, deploy, save and history of part_001
NextLive ==
    \/ Tick
    \/ \E r \in Reqs : ChatReceive(r) /\ inp'[r].file = "part_001"
    \/ \E r \in Reqs : ChatModelReturnLive(r)
    \/ \E r \in Reqs : DeployReceive(r)
    \/ \E r \in Reqs : DeployUserReturnLive(r)
    \/ \E r \in Reqs : DeployRepoReturnLive(r)
    \/ \E r \in Reqs : DeployFileReturnLive(r)
    \/ \E r \in Reqs : DeployVercelReturnLive(r)
    \/ \E r \in Reqs : StoredIn(userSessions, Keys) < MaxStored
                        /\ SaveReceive(r, {Alice}, SaveProjects)
    \/ \E r \in Reqs : HistoryReceive(r, {Alice})
    \/ \E r \in Reqs : NewRequest(r)

\* each outbound call eventually returns or fails: the promise the handler
\* awaits settles, and the handler resumes
CallsReturn ==
    \A r \in Reqs :
        /\ WF_vars(ChatModelReturnLive(r))
        /\ WF_vars(DeployUserReturnLive(r))
        /\ WF_vars(DeployRepoReturnLive(r))
        /\ WF_vars(DeployFileReturnLive(r))
        /\ WF_vars(DeployVercelReturnLive(r))

SpecLive == InitLive /\ [][NextLive]_vars /\ CallsReturn

(* ============================== properties ============================ *)

ArtifactFields == {"html", "css", "js"}

\* the request r was answered by the handler of api
Done(r, api) == pc[r] = "done" /\ inp[r].api = api

\* a chat request that passed validation: generateAIResponse was invoked
GeneratorInvoked(r) ==
    /\ inp[r].api = "chat"
    /\ inp[r].message.k = "string"
    /\ JsLength(Trim(inp[r].message.s)) >= 3

\* the model call of a chat request returned a JSON object
ModelObject(r) ==
    /\ Len(answers[r]) = 1
    /\ answers[r][1].t = "ok"
    /\ answers[r][1].body.shape = "json"
    /\ answers[r][1].body.v.k = "object"

\* the model call of a chat request was rejected or timed out
ModelThrew(r) == Len(answers[r]) = 1 /\ answers[r][1].t # "ok"

RECURSIVE IsPrefix(_, _)
IsPrefix(p, t) ==
    \/ p = <<>>
    \/ t # <<>> /\ Head(p) = Head(t) /\ IsPrefix(Tail(p), Tail(t))

RECURSIVE Contains(_, _)
\* the text t contains the text p
Contains(t, p) == IsPrefix(p, t) \/ (t # <<>> /\ Contains(Tail(t), p))

\* C1: every invocation of the Generator returns (the chat handler answers
\* success, not through its catch) with an Artifact whose markup, styles and
\* script are all present and non-empty, whatever the credential, the prior
\* artifact and the outcome of the model call.
C1_GeneratorNeverFailsOutward ==
    \A r \in Reqs :
        (pc[r] = "done" /\ GeneratorInvoked(r)) =>
            /\ resp[r].status = 200
            /\ resp[r].success
            /\ \A f \in ArtifactFields : Truthy(resp[r].code[f])

\* the model answered a JSON object without usable markup
C1_Witness ==
    \E r \in Reqs :
        /\ pc[r] = "done" /\ GeneratorInvoked(r)
        /\ ModelObject(r)
        /\ ~Truthy(Prop(answers[r][1].body.v, "html"))
        /\ Truthy(resp[r].code.html)

\* C2 as stated: every field the model's object holds is kept, every field
\* it lacks is the fallback template's.
C2_PresentFieldsKept ==
    \A r \in Reqs :
        (pc[r] = "done" /\ GeneratorInvoked(r) /\ ModelObject(r)) =>
            \A f \in ArtifactFields :
                LET sent == Prop(answers[r][1].body.v, f) IN
                IF sent # Undef THEN resp[r].code[f] = sent
                ELSE resp[r].code[f] =
                         generateFallbackTemplate(inp[r].file, inp[r].message)[f]

\* C2 amended: per-field fallback on truthiness.  Every field the model's
\* object holds with a non-empty value is kept; every field that is missing,
\* null or empty is, alone, the fallback template's field for the description.
C2_PerFieldFallback ==
    \A r \in Reqs :
        (pc[r] = "done" /\ GeneratorInvoked(r) /\ ModelObject(r)) =>
            \A f \in ArtifactFields :
                LET sent == Prop(answers[r][1].body.v, f) IN
                IF Truthy(sent) THEN resp[r].code[f] = sent
                ELSE resp[r].code[f] =
                         generateFallbackTemplate(inp[r].file, inp[r].message)[f]

\* only the script came from the model: it is kept, the other two fall back
C2_Witness ==
    \E r \in Reqs :
        /\ pc[r] = "done" /\ GeneratorInvoked(r) /\ ModelObject(r)
        /\ answers[r][1].body.v = Obj([js |-> AiStr("js")])
        /\ resp[r].code.js = AiStr("js")
        /\ resp[r].code.html # AiStr("html")
        /\ resp[r].code.css = generateFallbackTemplate(inp[r].file, inp[r].message).css

\* C3: when the model call throws or times out, all three fields are
\* non-empty and are the fallback content for the input description, none of
\* them the model's; the same holds of generateWebsiteCode in the older
\* pipeline.
C3_TotalFallback ==
    \A r \in Reqs :
        /\ (pc[r] = "done" /\ GeneratorInvoked(r) /\ ModelThrew(r)) =>
               /\ resp[r].code = generateFallbackTemplate(inp[r].file, inp[r].message)
               /\ \A f \in ArtifactFields : Truthy(resp[r].code[f])
               /\ inp[r].file = "server.js" =>
                      Contains(resp[r].code.html.s, inp[r].message.s)
        /\ (inp[r].api = "generate-website" /\ Len(answers[r]) >= 1
                /\ answers[r][1].t # "ok") =>
               /\ loc[r].code = Obj([html |-> createFallbackHTML(inp[r].description),
                                     css |-> createFallbackCSS, js |-> createFallbackJS])
               /\ \A f \in ArtifactFields : Truthy(Get(loc[r].code, f))
               /\ Contains(Get(loc[r].code, "html").s, inp[r].description.s)

\* a timed-out model call answered with the template of the description
C3_Witness ==
    \E r \in Reqs :
        /\ pc[r] = "done" /\ GeneratorInvoked(r)
        /\ answers[r] = <<[t |-> "timeout"]>>
        /\ inp[r].file = "server.js"
        /\ Contains(resp[r].code.html.s, inp[r].message.s)

(* ---------------------------- the pipeline ---------------------------- *)

\* `${Date.now()}` of a reading the clock has shown
Tokens == {TimeToken(t) : t \in 0..now}

\* https://happy-website-<time>.vercel.app, the Trigger's placeholder
IsMockVercelUrl(u) ==
    /\ u.k = "string" /\ Len(u.s) = 4
    /\ u.s[1] = "https://" /\ u.s[2] = "happy-website-"
    /\ u.s[3] \in Tokens /\ u.s[4] = ".vercel.app"

\* https://happy-fallback-<time>.vercel.app, the handler's catch
IsFallbackUrl(u) ==
    /\ u.k = "string" /\ Len(u.s) = 4
    /\ u.s[1] = "https://" /\ u.s[2] = "happy-fallback-"
    /\ u.s[3] \in Tokens /\ u.s[4] = ".vercel.app"

\* https://github.com/happy-ai/website-<time>, the placeholder repository
IsMockRepoUrl(u) ==
    /\ u.k = "string" /\ Len(u.s) = 5
    /\ u.s[1] = "https://github.com/" /\ u.s[2] = "happy-ai" /\ u.s[3] = "/"
    /\ u.s[4] = "website-" /\ u.s[5] \in Tokens

IsFallbackRepoUrl(u) == u = Str(<<"https://github.com/", "happy-ai", "/", "fallback-repo">>)

\* owner/name: one separator, something on both sides of it
OwnerNameShape(v) ==
    /\ v.k = "string"
    /\ \E i \in 2..(Len(v.s) - 1) :
        /\ v.s[i] = "/"
        /\ \A j \in (1..Len(v.s)) \ {i} : v.s[j] # "/" /\ v.s[j] # ""

CallsTo(r, api) == {i \in 1..Len(calls[r]) : calls[r][i].api = api}

\* a deploy request whose project passed validation
ValidDeploy(r) ==
    /\ inp[r].api = "deploy"
    /\ Truthy(inp[r].project) /\ Truthy(Get(inp[r].project, "html"))

\* the repository creation or the first file write of a deploy run failed
PublisherErrored(r) ==
    /\ ValidDeploy(r) /\ cfg.github
    /\ \/ Len(answers[r]) >= 2 /\ answers[r][2].t = "fail"
       \/ Len(answers[r]) >= 3 /\ answers[r][3].t = "fail"

\* the run has its githubData, published or placeholder
PastPublisher(r) == ValidDeploy(r) /\ loc[r].githubData # Undef

\* the deployment call of the run was issued and failed
TriggerCallFailed(r) ==
    /\ calls[r] # <<>> /\ Len(answers[r]) = Len(calls[r])
    /\ calls[r][Len(calls[r])].api = "vercel"
    /\ answers[r][Len(answers[r])].t = "fail"

NoCredentials == ~cfg.deepseek /\ ~cfg.github /\ ~cfg.vercel

\* C4: a description that is absent or shorter than the minimum length is
\* answered with the 400 clarification and no outbound call is ever issued
\* for the request; the same holds of a deploy request without markup.
C4_ShortDescriptionNoCalls ==
    \A r \in Reqs :
        /\ (inp[r].api = "generate-website"
               /\ (~Truthy(inp[r].description) \/ JsLength(inp[r].description.s) < 10)) =>
               /\ pc[r] = "done"
               /\ calls[r] = <<>>
               /\ resp[r].status = 400 /\ ~resp[r].success
               /\ resp[r].error = Str(<<"Please provide detailed description">>)
        /\ (inp[r].api = "deploy" /\ ~ValidDeploy(r)) =>
               /\ pc[r] = "done"
               /\ calls[r] = <<>>
               /\ resp[r].status = 400 /\ ~resp[r].success

\* a description of nine characters was turned away
C4_Witness ==
    \E r \in Reqs :
        /\ Done(r, "generate-website")
        /\ inp[r].description.k = "string"
        /\ JsLength(inp[r].description.s) = 9
        /\ calls[r] = <<>> /\ resp[r].status = 400

\* C5: with the publishing credential present, a Publisher error ends the
\* run in the handler's catch: success false, placeholder URLs for both, an
\* explanation, and no deployment call.
C5_PublisherErrorMocked ==
    \A r \in Reqs :
        PublisherErrored(r) =>
            /\ pc[r] = "done"
            /\ resp[r].status = 200 /\ ~resp[r].success
            /\ IsFallbackUrl(resp[r].url)
            /\ IsFallbackRepoUrl(resp[r].github)
            /\ Truthy(resp[r].message) /\ Truthy(resp[r].error)
            /\ CallsTo(r, "vercel") = {}

\* the first file write failed after the repository was created
C5_Witness ==
    \E r \in Reqs :
        /\ PublisherErrored(r)
        /\ Len(answers[r]) = 3 /\ answers[r][2].t = "ok"
        /\ answers[r][3].error.status = 500
        /\ ~resp[r].success /\ IsFallbackUrl(resp[r].url)

\* C6: a run that got past the Publisher step answers success true with a
\* public URL and the repository URL, whether or not the Trigger degraded.
C6_SuccessPastPublisher ==
    \A r \in Reqs :
        (pc[r] = "done" /\ PastPublisher(r)) =>
            /\ resp[r].status = 200 /\ resp[r].success
            /\ Truthy(resp[r].url)
            /\ Truthy(resp[r].github) /\ resp[r].github = loc[r].githubData.url

\* a real repository, a failed deployment call, and still success
C6_Witness ==
    \E r \in Reqs :
        /\ pc[r] = "done" /\ PastPublisher(r) /\ cfg.github
        /\ TriggerCallFailed(r)
        /\ resp[r].success /\ IsMockVercelUrl(resp[r].url)

\* C7 as stated: with no credentials the deploy run answers success false
\* with the mock URLs and a message.
C7_NoCredentialsFails ==
    \A r \in Reqs :
        (pc[r] = "done" /\ ValidDeploy(r) /\ NoCredentials) =>
            /\ ~resp[r].success
            /\ IsMockVercelUrl(resp[r].url)
            /\ IsMockRepoUrl(resp[r].github)
            /\ Truthy(resp[r].message)

\* C7 amended: with no credentials the deploy run issues no call and answers
\* success true with the mock public URL, the mock repository URL and a
\* message; the older generate-website pipeline answers 500, success
\* false, with an error and no URL.
C7_NoCredentialsMocked ==
    \A r \in Reqs :
        /\ (pc[r] = "done" /\ ValidDeploy(r) /\ NoCredentials) =>
               /\ resp[r].success
               /\ IsMockVercelUrl(resp[r].url)
               /\ IsMockRepoUrl(resp[r].github)
               /\ Truthy(resp[r].message)
               /\ calls[r] = <<>>
        /\ (Done(r, "generate-website") /\ NoCredentials /\ resp[r].status # 400) =>
               /\ resp[r].status = 500 /\ ~resp[r].success
               /\ Truthy(resp[r].error)
               /\ "url" \notin DOMAIN resp[r]

\* a valid project deployed with nothing configured
C7_Witness ==
    \E r \in Reqs :
        /\ pc[r] = "done" /\ ValidDeploy(r) /\ NoCredentials
        /\ resp[r].success /\ IsMockVercelUrl(resp[r].url)

\* C8: without the publishing credential createGitHubRepository would throw
\* its missing-credential error before any call; the handler instead takes
\* a placeholder githubData whose repoName has the owner/name shape, issues
\* no source-hosting call, and the run is not answered as an error.
C8_MissingCredentialPlaceholder ==
    \A r \in Reqs :
        /\ ~cfg.github =>
               createGitHubRepositoryEnter(cfg.github) =
                   [throws |-> TRUE,
                    error |-> [status |-> 0,
                               message |-> Str(<<"GitHub token not configured">>)]]
        /\ (ValidDeploy(r) /\ ~cfg.github) =>
               /\ CallsTo(r, "github") = {}
               /\ loc[r].githubData # Undef
               /\ OwnerNameShape(loc[r].githubData.repoName)
               /\ IsMockRepoUrl(loc[r].githubData.url)
               /\ pc[r] = "done" =>
                      resp[r].success /\ "error" \notin DOMAIN resp[r]

\* the placeholder repository handed to a deployment call
C8_Witness ==
    \E r \in Reqs :
        /\ ValidDeploy(r) /\ ~cfg.github /\ pc[r] = "deploy.vercel"
        /\ OwnerNameShape(loc[r].githubData.repoName)
        /\ CallsTo(r, "github") = {} /\ CallsTo(r, "vercel") = {1}

\* C9: the Trigger step always ends with a public URL and never throws into
\* the handler's catch; when no deployment credential is configured or the
\* deployment call fails, the URL is the placeholder of the fixed prefix and
\* a clock reading.
C9_TriggerNeverFailsOutward ==
    \A r \in Reqs :
        (pc[r] = "done" /\ PastPublisher(r)) =>
            /\ resp[r].success
            /\ Truthy(resp[r].url)
            /\ (~cfg.vercel \/ TriggerCallFailed(r)) => IsMockVercelUrl(resp[r].url)
            /\ (cfg.vercel /\ ~TriggerCallFailed(r)) =>
                   resp[r].url = DeploymentUrl(answers[r][Len(answers[r])].url)

\* the deployment platform rejected the call
C9_Witness ==
    \E r \in Reqs :
        /\ pc[r] = "done" /\ PastPublisher(r) /\ cfg.vercel
        /\ TriggerCallFailed(r)
        /\ answers[r][Len(answers[r])].status = 403
        /\ IsMockVercelUrl(resp[r].url)

ProjectsOf(sessions, k) == IF sessions[k] = Undef THEN <<>> ELSE sessions[k].projects

\* the clock reading an entry was saved at
SavedAt(entry) == CHOOSE t \in 0..MaxClock : entry.timestamp = IsoString(t)

MostRecentFirst(projects) ==
    \A i \in 1..(Len(projects) - 1) : SavedAt(projects[i]) >= SavedAt(projects[i + 1])

\* request r is answered in this step, as a request to api
Handled(r, api) == pc[r] = "idle" /\ pc'[r] = "done" /\ inp'[r].api = api

\* C11: every project list holds at most 20 entries, most recent first; a
\* save that succeeds puts its entry at the front, keeps the entries before
\* it in their order, and drops from the tail what exceeds 20.
C11_SessionCapacity ==
    /\ [](\A k \in Keys :
             /\ Len(ProjectsOf(userSessions, k)) <= MaxProjects
             /\ MostRecentFirst(ProjectsOf(userSessions, k)))
    /\ [][\A r \in Reqs :
             Handled(r, "save") /\ resp'[r].success =>
                 LET old == ProjectsOf(userSessions, inp'[r].userId)
                     new == ProjectsOf(userSessions', inp'[r].userId)
                 IN  /\ new # <<>>
                     /\ Head(new) = SavedProject(inp'[r].project, now)
                     /\ Tail(new) = SubSeq(old, 1, IF Len(old) < MaxProjects
                                                   THEN Len(old) ELSE MaxProjects - 1)
                     /\ Len(old) = MaxProjects => Len(new) = MaxProjects]_vars

\* a save onto a full list was answered: 21 entries before the trim, 20 kept,
\* entries of different clock readings among them
C11_Witness ==
    \E r \in Reqs :
        /\ Done(r, "save") /\ resp[r].success
        /\ loc[r].length = MaxProjects + 1
        /\ Len(ProjectsOf(userSessions, inp[r].userId)) = MaxProjects
        /\ SavedAt(ProjectsOf(userSessions, inp[r].userId)[1]) >
           SavedAt(ProjectsOf(userSessions, inp[r].userId)[MaxProjects])

\* C12 as claimed: once a user's list is full (20 entries, as after 25
\* saves), a history request is answered with all 20 entries.
C12_HistoryReturnsAllStored ==
    \A r \in Reqs :
        Done(r, "history")
        /\ Len(ProjectsOf(userSessions, inp[r].userId)) = MaxProjects =>
            Len(resp[r].history) = MaxProjects

\* C12 amended: a history request is answered with the first 10 entries of
\* the user's list (all of them when fewer are stored), most recent first,
\* and with the stored count as total; the stored count never exceeds 20.
C12_HistoryReturnsFirstTen ==
    \A r \in Reqs :
        Done(r, "history") =>
            LET stored == ProjectsOf(userSessions, inp[r].userId)
            IN  /\ Len(stored) <= MaxProjects
                /\ resp[r].success
                /\ resp[r].total = Len(stored)
                /\ Len(resp[r].history) =
                       (IF Len(stored) < HistoryLimit THEN Len(stored) ELSE HistoryLimit)
                /\ \A i \in 1..Len(resp[r].history) : resp[r].history[i] = stored[i]
                /\ MostRecentFirst(resp[r].history)

\* history answered for a full list: total 20, 10 entries returned, of
\* different clock readings
C12_Witness ==
    \E r \in Reqs :
        /\ Done(r, "history")
        /\ resp[r].total = MaxProjects
        /\ Len(resp[r].history) = HistoryLimit
        /\ SavedAt(resp[r].history[1]) > SavedAt(resp[r].history[HistoryLimit])

\* C13: the history responses answered for a key since its last save are
\* identical (entries, order and total), whether the key was known or not,
\* and a history request leaves every key's project list as it was.
C13_HistoryIdempotent ==
    /\ [](\A k \in Keys :
             seen[k] # NoSeen /\ seen[k].last # NoSeen => seen[k].last = seen[k].first)
    /\ [][\A r \in Reqs :
             Handled(r, "history") =>
                 \A k \in Keys :
                     ProjectsOf(userSessions', k) = ProjectsOf(userSessions, k)]_vars

\* history was answered twice in a row for a user with a saved project and
\* twice for a user nothing was ever saved for
C13_Witness ==
    \E u \in UserIds, v \in UserIds :
        /\ seen[u] # NoSeen /\ seen[u].last # NoSeen
        /\ seen[u].last.total > 0
        /\ seen[v] # NoSeen /\ seen[v].last # NoSeen
        /\ ProjectsOf(userSessions, v) = <<>>

\* C14 as claimed: a store request without a userId is answered with an empty
\* history and no error, and records no project (no list under the missing
\* key ever holds an entry); a store request with a userId never fails.
C14_MissingUserIdEmptyHistory ==
    /\ \A r \in Reqs :
           pc[r] = "done" /\ inp[r].api \in {"save", "history"} =>
               IF inp[r].userId = Undef
               THEN /\ "history" \in DOMAIN resp[r]
                    /\ resp[r].history = <<>>
                    /\ "error" \notin DOMAIN resp[r]
               ELSE resp[r].success
    /\ ProjectsOf(userSessions, Undef) = <<>>

(* ------------------------------ thresholds ---------------------------- *)

\* C15: a chat message of fewer than 3 characters after trimming (or none)
\* is answered 400 with the validation text, no code and no model call, a
\* response that is neither the pipeline's short-description response nor
\* the clarification; a message of 3 characters or more after trimming and
\* fewer than the pipeline's 10 is answered 200 with an artifact, while the
\* pipeline turns a description of that length down.
C15_TwoThresholds ==
    /\ ChatMinLength < MinDescription /\ MinDescription < ClarifyLength
    /\ \A r \in Reqs :
           /\ (Done(r, "chat") /\ inp[r].message.k \in {"string", "undefined"}) =>
                 IF ~Truthy(inp[r].message)
                    \/ JsLength(Trim(inp[r].message.s)) < ChatMinLength
                 THEN /\ resp[r].status = 400 /\ ~resp[r].success
                      /\ resp[r].code = Null
                      /\ calls[r] = <<>>
                      /\ resp[r] # GenInvalid
                      /\ resp[r].response # GenInvalid.error
                      /\ resp[r].response # ChatClarify.response
                 ELSE JsLength(inp[r].message.s) < MinDescription =>
                      /\ resp[r].status = 200 /\ resp[r].success
                      /\ \A f \in ArtifactFields : Truthy(resp[r].code[f])
           /\ (Done(r, "generate-website") /\ inp[r].description.k = "string"
               /\ JsLength(inp[r].description.s) < MinDescription) =>
                 resp[r] = GenInvalid

\* " hi " (4 characters, 2 after trimming) was rejected by chat
C15_Witness ==
    \E r \in Reqs :
        /\ Done(r, "chat")
        /\ inp[r].message = Str(<<" ", "h", "i", " ">>)
        /\ resp[r] = ChatInvalid

(* ------------------------- the order of the calls --------------------- *)

\* the step of a run a call belongs to: generate, publish, deploy
Stage(call) ==
    CASE call.api = "deepseek" -> 1
      [] call.api = "github" -> 2
      [] call.api = "vercel" -> 3

\* the calls of the run issued and not yet answered
InFlight(r) == Len(calls[r]) - Len(answers[r])

\* the paths the publisher of the run writes, in order
PublisherPaths(r) == IF inp[r].api = "deploy" THEN FilePaths ELSE GenFilePaths

\* the publisher step of the run is over when call i is issued: its
\* repository was created and every file write was issued and answered (the
\* first one with success), or a placeholder stands for the repository
PublisherCompleted(r, i) ==
    LET github == {j \in 1..(i - 1) : calls[r][j].api = "github"}
        writes == {j \in github : calls[r][j].op = "repos.createOrUpdateFileContents"}
        creates == {j \in github : calls[r][j].op = "repos.createForAuthenticatedUser"}
    IN  /\ loc[r].githubData # Undef
        /\ \/ /\ github = {}
              /\ inp[r].api = "deploy" /\ ~cfg.github
              /\ \E t1 \in 0..MaxClock, t2 \in 0..MaxClock :
                     loc[r].githubData = MockGithubData(t1, t2)
           \/ /\ Cardinality(creates) = 1
              /\ \A j \in creates : answers[r][j].t = "ok"
              /\ Cardinality(writes) = Len(PublisherPaths(r))
              /\ \A j \in writes : j - 1 \in writes \cup creates
              /\ \A j \in writes : j - 1 \in creates => answers[r][j].t = "ok"

\* C16: the calls of a run are issued one at a time, each after the answer
\* to the one before, in the order generate, publish, deploy; the deployment
\* call is issued only once the publisher step is over (repository and
\* files written, or a placeholder in its place).
C16_CallsSequential ==
    \A r \in Reqs :
        /\ InFlight(r) \in {0, 1}
        /\ InFlight(r) = 1 <=> pc[r] \notin {"idle", "done"}
        /\ \A i \in 1..Len(calls[r]), j \in 1..Len(calls[r]) :
               i < j => Stage(calls[r][i]) <= Stage(calls[r][j])
        /\ \A i \in CallsTo(r, "vercel") :
               /\ i = Len(calls[r])
               /\ Len(answers[r]) >= i - 1
               /\ PublisherCompleted(r, i)

\* the deployment call of a deploy run is in flight after the six calls of
\* the publisher were answered
C16_Witness ==
    \E r \in Reqs :
        /\ inp[r].api = "deploy" /\ pc[r] = "deploy.vercel"
        /\ Len(calls[r]) = 7 /\ Len(answers[r]) = 6
        /\ InFlight(r) = 1

\* what a call asks for: the service, the operation and the file written
Target(call) ==
    <<call.api, call.op, IF "path" \in DOMAIN call THEN call.path ELSE "">>

\* some call of the run was answered with a failure
SomeCallFailed(r) == \E i \in 1..Len(answers[r]) : answers[r][i].t # "ok"

\* C17: no two calls of a run ask for the same thing (one model completion,
\* one identity lookup, one repository creation, one write per file, one
\* deployment), so no call is issued again after its failure; a chat or
\* deploy run of part_001 with a failed call still answers 200 with its
\* artifact or its URLs.
C17_NoRetries ==
    \A r \in Reqs :
        /\ \A i \in 1..Len(calls[r]), j \in 1..Len(calls[r]) :
               i # j => Target(calls[r][i]) # Target(calls[r][j])
        /\ Len(calls[r]) <= 7
        /\ (Done(r, "chat") /\ SomeCallFailed(r)) =>
               /\ resp[r].status = 200
               /\ \A f \in ArtifactFields : Truthy(resp[r].code[f])
        /\ (Done(r, "deploy") /\ SomeCallFailed(r)) =>
               /\ resp[r].status = 200
               /\ Truthy(resp[r].url) /\ Truthy(resp[r].github)

\* the write of style.css failed, the loop went on to script.js and README.md,
\* and the run was answered
C17_Witness ==
    \E r \in Reqs :
        /\ Done(r, "deploy")
        /\ Len(answers[r]) >= 6
        /\ answers[r][4].t = "fail"
        /\ calls[r][4].path = "style.css" /\ calls[r][5].path = "script.js"

\* C18 as claimed: the entries of a project list have pairwise distinct ids.
C18_IdsUnique ==
    \A k \in Keys :
        LET stored == ProjectsOf(userSessions, k)
        IN  \A i \in 1..Len(stored), j \in 1..Len(stored) :
                i # j => stored[i].id # stored[j].id

\* C19: a save or history request of one userId leaves the session of every
\* other key (its project list, its createdAt, its absence) as it was; the
\* handlers are synchronous, so requests of different users interleave as
\* whole steps.
C19_PerUserPartition ==
    [][\A r \in Reqs :
          Handled(r, "save") \/ Handled(r, "history") =>
              \A k \in Keys \ {inp'[r].userId} : userSessions'[k] = userSessions[k]]_vars

\* a save of alice was answered while bob holds a session with a project
C19_Witness ==
    \E r \in Reqs :
        /\ Done(r, "save") /\ resp[r].success
        /\ inp[r].userId = Alice
        /\ Len(ProjectsOf(userSessions, Bob)) = 1
        /\ Len(ProjectsOf(userSessions, Alice)) = 1

(* ------------------------- the Trigger's strategy --------------------- *)

\* C20: a deploy run issues at most one deployment call; it is the
\* repository-based one (the repoName of githubData, ref main) exactly when
\* the deployment credential and the project id are both configured, and
\* otherwise the upload of index.html, style.css, script.js (the project's
\* fields, the template's styles or script for a missing one) and
\* vercel.json; when the call fails the run answers the mock URL and issues
\* no other call.
C20_OneStrategy ==
    \A r \in Reqs :
        inp[r].api = "deploy" =>
            /\ Cardinality(CallsTo(r, "vercel")) <= 1
            /\ \A i \in CallsTo(r, "vercel") :
                   LET call == calls[r][i]
                       project == inp[r].project
                   IN  /\ call.strategy \in {"git", "files"}
                       /\ call.strategy = "git" <=> (cfg.vercel /\ cfg.project)
                       /\ call.strategy = "git" =>
                              /\ call.repo = loc[r].githubData.repoName
                              /\ call.ref = "main"
                              /\ "files" \notin DOMAIN call
                       /\ call.strategy = "files" =>
                              /\ call.files =
                                     <<"index.html", "style.css", "script.js", "vercel.json">>
                              /\ call.data[1] = Get(project, "html")
                              /\ call.data[2] \in
                                     {Get(project, "css"),
                                      generateFallbackTemplate("part_001", Str(<<>>)).css}
                              /\ call.data[3] \in
                                     {Get(project, "js"),
                                      generateFallbackTemplate("part_001", Str(<<>>)).js}
                              /\ Truthy(call.data[2]) /\ Truthy(call.data[3])
                              /\ "repo" \notin DOMAIN call
                       /\ (Len(answers[r]) >= i /\ answers[r][i].t = "fail") =>
                              /\ pc[r] = "done" /\ i = Len(calls[r])
                              /\ IsMockVercelUrl(resp[r].url)

\* the file upload of a run without a project id failed and the run was
\* answered the mock URL
C20_Witness ==
    \E r \in Reqs :
        /\ Done(r, "deploy") /\ TriggerCallFailed(r)
        /\ cfg.vercel /\ ~cfg.project
        /\ calls[r][Len(calls[r])].strategy = "files"
        /\ Get(inp[r].project, "css") = Undef

(* ----------------------- placeholder repositories --------------------- *)

\* the run's githubData is the placeholder of the handler, not a repository
PlaceholderRepository(r) ==
    /\ ValidDeploy(r) /\ ~cfg.github
    /\ loc[r].githubData # Undef
    /\ CallsTo(r, "github") = {}

\* C21 as claimed: a run whose repository is a placeholder deploys by file
\* upload; no repository-based deployment call names a placeholder.
C21_PlaceholderNeverDeployedByGit ==
    \A r \in Reqs :
        PlaceholderRepository(r) =>
            \A i \in CallsTo(r, "vercel") : calls[r][i].strategy = "files"

(* ------------------------- the Publisher's calls ---------------------- *)

\* the indices of the run's calls with operation op, in the order issued
RECURSIVE CallsWithOp(_, _, _)
CallsWithOp(r, op, n) ==
    IF n = 0 THEN <<>>
    ELSE IF calls[r][n].api = "github" /\ calls[r][n].op = op
         THEN Append(CallsWithOp(r, op, n - 1), n)
         ELSE CallsWithOp(r, op, n - 1)

Creates(r) == CallsWithOp(r, "repos.createForAuthenticatedUser", Len(calls[r]))
Writes(r) == CallsWithOp(r, "repos.createOrUpdateFileContents", Len(calls[r]))

\* the files a publisher writes, in order: part_001, and part_000 (no README)
WriteOrder(r) ==
    IF inp[r].api = "deploy"
    THEN <<"index.html", "style.css", "script.js", "README.md">>
    ELSE <<"index.html", "style.css", "script.js">>

\* C22: the repository creation (one, not auto-initialised) is issued and
\* answered before any file write; the k-th write is for the k-th file of
\* the fixed order index.html, style.css, script.js, README.md; and a deploy
\* run whose first write succeeded and whose publisher has returned has
\* issued exactly one write per file, whatever the later writes answered.
C22_PublisherCallOrder ==
    \A r \in Reqs :
        /\ Len(Creates(r)) <= 1
        /\ \A c \in 1..Len(Creates(r)) : ~calls[r][Creates(r)[c]].auto_init
        /\ Writes(r) # <<>> =>
               /\ Len(Creates(r)) = 1
               /\ Creates(r)[1] < Writes(r)[1]
               /\ answers[r][Creates(r)[1]].t = "ok"
        /\ Len(Writes(r)) <= Len(WriteOrder(r))
        /\ \A k \in 1..Len(Writes(r)) :
               calls[r][Writes(r)[k]].path = WriteOrder(r)[k]
        /\ (inp[r].api = "deploy" /\ cfg.github /\ loc[r].githubData # Undef) =>
               /\ Len(Writes(r)) = 4
               /\ answers[r][Writes(r)[1]].t = "ok"

\* the writes of style.css and script.js both failed and README.md was
\* still written
C22_Witness ==
    \E r \in Reqs :
        /\ inp[r].api = "deploy" /\ loc[r].githubData # Undef
        /\ Len(Writes(r)) = 4
        /\ answers[r][Writes(r)[2]].t = "fail"
        /\ answers[r][Writes(r)[3]].t = "fail"
        /\ answers[r][Writes(r)[4]].t = "ok"

\* the operations the publisher of part_001 issues: none removes a repository
PublisherOps ==
    {"users.getAuthenticated", "repos.createForAuthenticatedUser",
     "repos.createOrUpdateFileContents"}

\* C23: when the first file write of a deploy run fails, the publisher
\* throws (the run is answered by the handler's catch with the error's
\* text), no other write and no call removing the repository is issued;
\* when the first write succeeds, failures of later writes are swallowed:
\* once all four are answered the publisher has returned its reference
\* (url, owner/name).
C23_FirstWriteLoadBearing ==
    \A r \in Reqs :
        (inp[r].api = "deploy" /\ Writes(r) # <<>>
         /\ Len(answers[r]) >= Writes(r)[1]) =>
            LET first == answers[r][Writes(r)[1]]
            IN  /\ \A i \in CallsTo(r, "github") : calls[r][i].op \in PublisherOps
                /\ first.t = "fail" =>
                       /\ Len(Writes(r)) = 1
                       /\ Len(calls[r]) = Writes(r)[1]
                       /\ pc[r] = "done"
                       /\ loc[r].githubData = Undef
                       /\ ~resp[r].success
                       /\ resp[r].error = ConvertGitHubError(first.error).message
                /\ (first.t = "ok" /\ Len(Writes(r)) = 4
                    /\ Len(answers[r]) >= Writes(r)[4]) =>
                       /\ loc[r].githubData # Undef
                       /\ loc[r].githubData.url = RepoData(loc[r].repoName).html_url
                       /\ OwnerNameShape(loc[r].githubData.repoName)

\* the first write was rejected with 422 after the repository was created
C23_Witness ==
    \E r \in Reqs :
        /\ inp[r].api = "deploy" /\ Len(Writes(r)) = 1
        /\ Len(answers[r]) = Writes(r)[1]
        /\ answers[r][Creates(r)[1]].t = "ok"
        /\ answers[r][Writes(r)[1]].t = "fail"
        /\ answers[r][Writes(r)[1]].error.status = 422
        /\ pc[r] = "done"

\* the identity lookup of the run was answered with a failure
LookupFailed(r) ==
    /\ inp[r].api = "deploy" /\ calls[r] # <<>>
    /\ calls[r][1].op = "users.getAuthenticated"
    /\ Len(answers[r]) >= 1 /\ answers[r][1].t = "fail"

\* C24: after a failed identity lookup the publisher goes on: it issues the
\* repository creation, writes every file with owner happy-ai-user, and the
\* reference it returns is happy-ai-user/<name>, of the owner/name shape; a
\* run that ends in the handler's catch then does so for a failed creation
\* or first write.
C24_LookupFailureSubstituted ==
    \A r \in Reqs :
        LookupFailed(r) =>
            /\ loc[r].username = Str(<<"happy-ai-user">>)
            /\ Len(Creates(r)) = 1 /\ Creates(r)[1] = 2
            /\ \A k \in 1..Len(Writes(r)) :
                   calls[r][Writes(r)[k]].owner = Str(<<"happy-ai-user">>)
            /\ loc[r].githubData # Undef =>
                   /\ OwnerNameShape(loc[r].githubData.repoName)
                   /\ loc[r].githubData.repoName =
                          Str(<<"happy-ai-user", "/">> \o loc[r].repoName.s)
            /\ (pc[r] = "done" /\ ~resp[r].success) =>
                   \E i \in 2..3 : Len(answers[r]) = i /\ answers[r][i].t = "fail"

\* the lookup failed and the publisher returned its reference all the same
C24_Witness ==
    \E r \in Reqs :
        /\ LookupFailed(r)
        /\ loc[r].githubData # Undef
        /\ Len(Writes(r)) = 4
        /\ loc[r].githubData.repoName.s[1] = "happy-ai-user"

(* --------------------------- the Publisher's errors ------------------- *)

\* the error the publisher of the run failed with, as the source host sent it
PublisherFailure(r) ==
    IF answers[r][2].t = "fail" THEN answers[r][2].error ELSE answers[r][3].error

\* the kind of a publisher error, read from its text alone
KindOfText(text) ==
    CASE text = Str(<<"GitHub token not configured">>) -> "missing-credential"
      [] text = Str(<<"Invalid GitHub token. Please check your GITHUB_TOKEN.">>) -> "401"
      [] text = Str(<<"Repository might already exist or name is invalid.">>) -> "422"
      [] OTHER -> "other"

\* the kind of a failure of the source host, read from its status
KindOfStatus(status) ==
    CASE status = 401 -> "401" [] status = 422 -> "422" [] OTHER -> "other"

\* the degrade outcome: not a success, both URLs placeholders of the catch
Degraded(body) ==
    /\ body.status = 200 /\ ~body.success
    /\ IsFallbackUrl(body.url) /\ IsFallbackRepoUrl(body.github)
    /\ body.message = Str(<<"Demo URLs generated. For real deployment, check API keys.">>)

C26_NoRawErrorCrosses ==
    \A r \in Reqs :
        /\ (Done(r, "chat") /\ ModelThrew(r)) =>
               /\ resp[r].success
               /\ \A f \in ArtifactFields : Truthy(resp[r].code[f])
        /\ (Done(r, "deploy") /\ TriggerCallFailed(r)) => IsMockVercelUrl(resp[r].url)
        /\ PublisherErrored(r) =>
               /\ ConvertGitHubError(PublisherFailure(r)) # PublisherFailure(r)
               /\ resp[r].error # PublisherFailure(r).message

(* ------------------------------- C27 --------------------------------- *)

\* the publisher of r has derived its repository name and not yet returned
Publishing(r) == pc[r] \in {"deploy.user", "deploy.repo", "deploy.file"}

\* C27: repository names never collide: two publish invocations in flight
\* together, even when both were handled at the same clock reading, have
\* derived distinct repository names.
C27_RepoNamesDistinct ==
    \A a, b \in Clients :
        (a # b /\ Publishing(a) /\ Publishing(b))
            => loc[a].repoName # loc[b].repoName


(* ------------------------------- C28 --------------------------------- *)

\* the first n entries of a list (all of it when it is shorter)
Take(list, n) == SubSeq(list, 1, IF Len(list) < n THEN Len(list) ELSE n)

\* C28: getOrCreate is idempotent: the first save or history request of a
\* userId creates its session (createdAt of that moment, a project list that
\* is empty but for the project this very save records); every later request
\* finds the session with its createdAt and its projects as they were (a save
\* then prepends its own entry); and a session once created is never removed.
C28_GetOrCreateIdempotent ==
    /\ [][\A r \in Reqs :
             Handled(r, "save") \/ Handled(r, "history") =>
                 LET k == inp'[r].userId
                     old == userSessions[k]
                     new == userSessions'[k]
                     before == IF old = Undef THEN <<>> ELSE old.projects
                     recorded == Handled(r, "save") /\ resp'[r].success
                 IN  /\ new # Undef
                     /\ new.userId = k
                     /\ new.createdAt = IF old = Undef THEN DateOf(now) ELSE old.createdAt
                     /\ IF recorded
                        THEN /\ Head(new.projects) = SavedProject(inp'[r].project, now)
                             /\ Tail(new.projects) = Take(before, MaxProjects - 1)
                        ELSE new.projects = before]_vars
    /\ [][\A k \in Keys : userSessions[k] # Undef => userSessions'[k] # Undef]_vars

\* a history request of alice was answered at a later clock reading than the
\* one her session was created at, and the session still holds her project
C28_Witness ==
    \E r \in Reqs :
        /\ Done(r, "history")
        /\ inp[r].userId = Alice
        /\ userSessions[Alice] # Undef
        /\ userSessions[Alice].createdAt # DateOf(now)
        /\ Len(userSessions[Alice].projects) = 1


(* ------------------------------- C30 --------------------------------- *)

\* the request of r waits for a remote call
Suspended(r) == pc[r] \notin {"idle", "done"}

\* C30: no lost updates on one user key: the save handler reads, prepends
\* and trims in one step, so whatever chat and deploy requests are suspended
\* around it, an answered save leaves the list it found with its own entry in
\* front (cut to the 20 most recent), and no other step touches a list.
C30_NoLostUpdates ==
    /\ [][\A r \in Clients :
             (Handled(r, "save") /\ resp'[r].success) =>
                 LET k == inp'[r].userId
                     before == ProjectsOf(userSessions, k)
                     after == ProjectsOf(userSessions', k)
                 IN  /\ Head(after) = SavedProject(inp'[r].project, now)
                     /\ Tail(after) = Take(before, MaxProjects - 1)]_vars
    /\ [][\A k \in Keys :
             userSessions'[k] # userSessions[k] =>
                 \E r \in Clients : Handled(r, "save") /\ inp'[r].userId = k]_vars

\* the second save of alice was answered while the other client waits for a
\* file write of its deploy: both projects are stored
C30_Witness ==
    \E a, b \in Clients :
        /\ Done(a, "save") /\ resp[a].success
        /\ Len(ProjectsOf(userSessions, Alice)) = 2
        /\ pc[b] = "deploy.file" /\ Suspended(b)


(* ------------------------------- C29 --------------------------------- *)

\* a non-empty string
NonEmptyText(v) == v.k = "string" /\ JsLength(v.s) > 0

\* C29: always answer.  A chat, deploy, save or history request is answered
\* in the step that receives it or waits for exactly one remote call; while
\* the calls return, a waiting request is eventually answered; a response is
\* written once per request; and the response of a deploy request that
\* passed validation carries a non-empty url and a non-empty github URL.
C29_AlwaysAnswer ==
    /\ \A r \in Reqs : Suspended(r) ~> (pc[r] = "done")
    /\ [][\A r \in Reqs :
             (pc[r] = "idle" /\ pc'[r] # "idle") =>
                 /\ inp'[r].api \in {"chat", "deploy", "save", "history"}
                 /\ \/ pc'[r] = "done" /\ resp'[r] # NoResp
                    \/ resp'[r] = NoResp /\ Len(calls'[r]) = Len(answers'[r]) + 1]_vars
    /\ [][\A r \in Reqs :
             resp'[r] # resp[r] =>
                 \/ resp[r] = NoResp /\ pc[r] # "done" /\ pc'[r] = "done"
                 \/ pc[r] = "done" /\ pc'[r] = "idle" /\ resp'[r] = NoResp]_vars
    /\ [](\A r \in Reqs :
             /\ (pc[r] = "done") <=> (resp[r] # NoResp)
             /\ (Done(r, "deploy") /\ ValidDeploy(r)) =>
                    NonEmptyText(resp[r].url) /\ NonEmptyText(resp[r].github))

\* a valid deploy request went through the publisher and the trigger, its
\* last call failed, and it was answered
C29_Witness ==
    \E r \in Reqs :
        /\ Done(r, "deploy") /\ ValidDeploy(r)
        /\ Len(calls[r]) >= 3 /\ Len(answers[r]) = Len(calls[r])
        /\ answers[r][Len(answers[r])].t = "fail"
        /\ NonEmptyText(resp[r].url)

====
